---- MODULE Spec2Model ----
(***************************************************************************)
(* CircularQueue<T> (and its iterators) of the TypeScript data-structure   *)
(* notes: a fixed-size FIFO queue over an array with frontIndex/rearIndex  *)
(* and the sentinel -1 for "empty".                                        *)
(*                                                                         *)
(* The object's fields are the variables size, queue, frontIndex and       *)
(* rearIndex.  `last` is what the most recent call returned or threw.      *)
(* enqueued/dequeued are history variables: the items of the successful    *)
(* enqueue calls and the values returned by the successful dequeue calls,  *)
(* in call order.  iters holds the closures of the iterators handed out.   *)
(***************************************************************************)
EXTENDS Integers, Sequences, FiniteSets, TLC

VARIABLES size, queue, frontIndex, rearIndex, last, enqueued, dequeued, iters

vars == <<size, queue, frontIndex, rearIndex, last, enqueued, dequeued, iters>>

fields == <<size, queue, frontIndex, rearIndex>>

-----------------------------------------------------------------------------
(* Bounds of the model *)

\* largest size passed to the constructor
MaxCap == 3
\* the constructor is also tried with sizes -MaxNeg .. -1
MaxNeg == 1
\* successful enqueue calls in one run
MaxEnq == 4

\* the items passed to enqueue
Values == {"a", "b"}

\* the sizes the constructor is called with
CtorArgs == (0 - MaxNeg)..MaxCap

\* the handles of the iterators a run may hold
IterIds == {"i1", "i2"}

-----------------------------------------------------------------------------
(* JavaScript values and arithmetic *)

\* what reading an array slot that was never written gives
Undefined == "undefined"

\* peek()'s answer on an empty queue
Null == "null"

\* no exception
NoError == "none"

Abs(x) == IF x < 0 THEN 0 - x ELSE x

\* a % b for b # 0: the remainder of the truncated division, with the sign
\* of the dividend (-0 is 0 under ==)
JsRem(a, b) == IF a < 0 THEN 0 - (Abs(a) % Abs(b)) ELSE a % Abs(b)

\* x == a % b, where a % 0 is NaN and NaN equals nothing
EqRem(x, a, b) == b # 0 /\ x = JsRem(a, b)

\* new Array(n) throws a RangeError for a negative length
ArrayCtorThrows(n) == n < 0

\* new Array(n): n holes
NewArray(n) == [i \in 0..(n - 1) |-> Undefined]

\* q[i]: a hole or an index outside the array reads undefined
ArrayGet(q, i) == IF i \in DOMAIN q THEN q[i] ELSE Undefined

\* q[i] = v for i >= 0: an index at or past the length grows the array
ArraySet(q, i, v) ==
  IF i \in DOMAIN q
  THEN [q EXCEPT ![i] = v]
  ELSE [j \in 0..i |-> IF j = i THEN v ELSE ArrayGet(q, j)]

\* the number of slots of the array
ArrayLength(q) == Cardinality(DOMAIN q)

-----------------------------------------------------------------------------
(* The read-only methods *)

\* isFull with the wrapped case forgotten: only front at 0 and rear at the end
isFullFrontZeroOnly(f, r, s) == f = 0 /\ r = s - 1

\* isFull with the unwrapped case forgotten: only the remainder test
isFullRemOnly(f, r, s) == EqRem(r, f - 1, s - 1)

\* the condition under which enqueue throws 'Queue is full'
isFull(f, r, s) ==
  \/ (f = 0 /\ r = s - 1)
  \/ EqRem(r, f - 1, s - 1)

isEmptyOf(f) == f = -1

isEmpty == isEmptyOf(frontIndex)

\* lengthOf with the wrapped branch forgotten
lengthOfNoWrap(f, r, s) == IF f = -1 THEN 0 ELSE r - f + 1

\* lengthOf with the wrapped branch one too small
lengthOfWrapOffByOne(f, r, s) ==
  IF f = -1 THEN 0
  ELSE IF r >= f THEN r - f + 1
  ELSE s - (f - r)

\* length without the test for the empty queue
lengthOfNoSentinel(f, r, s) ==
  IF r >= f THEN r - f + 1 ELSE s - f + r + 1

lengthOf(f, r, s) ==
  IF f = -1 THEN 0
  ELSE IF r >= f THEN r - f + 1
  ELSE s - (f - r - 1)

length == lengthOf(frontIndex, rearIndex, size)

\* peekOf with the empty test forgotten
peekOfNoEmptyCheck(f, q) == ArrayGet(q, f)

peekOf(f, q) == IF f = -1 THEN Null ELSE ArrayGet(q, f)

peek == peekOf(frontIndex, queue)

-----------------------------------------------------------------------------
(* History: what a FIFO queue would hold now *)

pending == SubSeq(enqueued, Len(dequeued) + 1, Len(enqueued))

\* a call's outcome
Returned(op, v) == [op |-> op, err |-> NoError, ret |-> v]

Threw(op, msg) == [op |-> op, err |-> msg, ret |-> Undefined]

\* a successful enqueue or dequeue marks the iterators handed out so far
Touch(its) ==
  [i \in IterIds |-> IF its[i].kind = "none" THEN its[i]
                     ELSE [its[i] EXCEPT !.mutated = TRUE]]

\* a number as the closures hold it: {n} for the number n, {} for NaN
Num(n) == {n}

NaN == {}

\* StepForward with the remainder forgotten
StepForwardNoWrap(index, s) == UNION {Num(n + 1) : n \in index}

\* (index + 1) % size
StepForward(index, s) ==
  IF s = 0 THEN NaN ELSE UNION {Num(JsRem(n + 1, s)) : n \in index}

\* StepBackward with the "+ size" forgotten
StepBackwardNoAdd(index, s) ==
  IF s = 0 THEN NaN ELSE UNION {Num(JsRem(n - 1, s)) : n \in index}

\* (index - 1 + size) % size
StepBackward(index, s) ==
  IF s = 0 THEN NaN ELSE UNION {Num(JsRem(n - 1 + s, s)) : n \in index}

\* storage[index]: storage[NaN] is undefined
StorageGet(q, index) ==
  IF index = NaN THEN Undefined ELSE ArrayGet(q, CHOOSE n \in index : TRUE)

\* no iterator was made under this handle yet
NoIter ==
  [kind |-> "none", index |-> Num(-1), count |-> 0, totalItems |-> 0,
   start |-> -1, out |-> <<>>, done |-> FALSE, mutated |-> FALSE]

-----------------------------------------------------------------------------
Init ==
  /\ size \in {s \in CtorArgs : ~ArrayCtorThrows(s)}
  /\ queue = NewArray(size)
  /\ frontIndex = -1
  /\ rearIndex = -1
  /\ last = Returned("new", Undefined)
  /\ enqueued = <<>>
  /\ dequeued = <<>>
  /\ iters = [i \in IterIds |-> NoIter]

-----------------------------------------------------------------------------
(* enqueue(item) *)

enqueueFull(item) ==
  /\ isFull(frontIndex, rearIndex, size)
  /\ last' = Threw("enqueue", "Queue is full")
  /\ UNCHANGED <<size, queue, frontIndex, rearIndex, enqueued, dequeued, iters>>

enqueueDone(item) ==
  /\ Len(enqueued) < MaxEnq
  /\ last' = Returned("enqueue", Undefined)
  /\ enqueued' = Append(enqueued, item)
  /\ iters' = Touch(iters)
  /\ UNCHANGED <<size, dequeued>>

\* enqueueFirst setting rearIndex alone
enqueueFirstRearOnly(item) ==
  /\ ~isFull(frontIndex, rearIndex, size)
  /\ frontIndex = -1
  /\ frontIndex' = frontIndex
  /\ rearIndex' = 0
  /\ queue' = ArraySet(queue, 0, item)
  /\ enqueueDone(item)

enqueueFirst(item) ==
  /\ ~isFull(frontIndex, rearIndex, size)
  /\ frontIndex = -1
  /\ frontIndex' = 0
  /\ rearIndex' = 0
  /\ queue' = ArraySet(queue, 0, item)
  /\ enqueueDone(item)

\* enqueueWrap moving rearIndex on past the end instead of back to slot 0
enqueueWrapNoWrap(item) ==
  /\ ~isFull(frontIndex, rearIndex, size)
  /\ frontIndex # -1
  /\ rearIndex = size - 1 /\ frontIndex # 0
  /\ rearIndex' = rearIndex + 1
  /\ queue' = ArraySet(queue, rearIndex + 1, item)
  /\ frontIndex' = frontIndex
  /\ enqueueDone(item)

\* enqueueWrap that drags the front to slot 0 along with the rear
enqueueWrapMovesFront(item) ==
  /\ ~isFull(frontIndex, rearIndex, size)
  /\ frontIndex # -1
  /\ rearIndex = size - 1 /\ frontIndex # 0
  /\ rearIndex' = 0
  /\ queue' = ArraySet(queue, 0, item)
  /\ frontIndex' = 0
  /\ enqueueDone(item)

enqueueWrap(item) ==
  /\ ~isFull(frontIndex, rearIndex, size)
  /\ frontIndex # -1
  /\ rearIndex = size - 1 /\ frontIndex # 0
  /\ rearIndex' = 0
  /\ queue' = ArraySet(queue, 0, item)
  /\ frontIndex' = frontIndex
  /\ enqueueDone(item)

\* enqueueNext storing the item before moving rearIndex
enqueueNextStale(item) ==
  /\ ~isFull(frontIndex, rearIndex, size)
  /\ frontIndex # -1
  /\ ~(rearIndex = size - 1 /\ frontIndex # 0)
  /\ rearIndex' = rearIndex + 1
  /\ queue' = ArraySet(queue, rearIndex, item)
  /\ frontIndex' = frontIndex
  /\ enqueueDone(item)

enqueueNext(item) ==
  /\ ~isFull(frontIndex, rearIndex, size)
  /\ frontIndex # -1
  /\ ~(rearIndex = size - 1 /\ frontIndex # 0)
  /\ rearIndex' = rearIndex + 1
  /\ queue' = ArraySet(queue, rearIndex + 1, item)
  /\ frontIndex' = frontIndex
  /\ enqueueDone(item)

enqueue(item) ==
  \/ enqueueFull(item)
  \/ enqueueFirst(item)
  \/ enqueueWrap(item)
  \/ enqueueNext(item)

-----------------------------------------------------------------------------
(* dequeue() *)

dequeueEmpty ==
  /\ frontIndex = -1
  /\ last' = Threw("dequeue", "Queue is empty")
  /\ UNCHANGED <<size, queue, frontIndex, rearIndex, enqueued, dequeued, iters>>

\* dequeueDone that also clears the slot it has read
dequeueDoneClears ==
  /\ last' = Returned("dequeue", ArrayGet(queue, frontIndex))
  /\ dequeued' = Append(dequeued, ArrayGet(queue, frontIndex))
  /\ iters' = Touch(iters)
  /\ queue' = ArraySet(queue, frontIndex, Undefined)
  /\ UNCHANGED <<size, enqueued>>

dequeueDone ==
  /\ last' = Returned("dequeue", ArrayGet(queue, frontIndex))
  /\ dequeued' = Append(dequeued, ArrayGet(queue, frontIndex))
  /\ iters' = Touch(iters)
  /\ UNCHANGED <<size, queue, enqueued>>

\* dequeueLast moving frontIndex on instead of resetting both indices
dequeueLastNoReset ==
  /\ frontIndex # -1
  /\ frontIndex = rearIndex
  /\ frontIndex' = IF frontIndex = size - 1 THEN 0 ELSE frontIndex + 1
  /\ rearIndex' = rearIndex
  /\ dequeueDone

\* dequeueLast resetting frontIndex alone
dequeueLastFrontOnly ==
  /\ frontIndex # -1
  /\ frontIndex = rearIndex
  /\ frontIndex' = -1
  /\ rearIndex' = rearIndex
  /\ dequeueDone

dequeueLast ==
  /\ frontIndex # -1
  /\ frontIndex = rearIndex
  /\ frontIndex' = -1
  /\ rearIndex' = -1
  /\ dequeueDone

\* dequeueWrap moving frontIndex on past the end instead of back to slot 0
dequeueWrapNoWrap ==
  /\ frontIndex # -1
  /\ frontIndex # rearIndex
  /\ frontIndex = size - 1
  /\ frontIndex' = frontIndex + 1
  /\ rearIndex' = rearIndex
  /\ dequeueDone

dequeueWrap ==
  /\ frontIndex # -1
  /\ frontIndex # rearIndex
  /\ frontIndex = size - 1
  /\ frontIndex' = 0
  /\ rearIndex' = rearIndex
  /\ dequeueDone

dequeueNext ==
  /\ frontIndex # -1
  /\ frontIndex # rearIndex
  /\ frontIndex # size - 1
  /\ frontIndex' = frontIndex + 1
  /\ rearIndex' = rearIndex
  /\ dequeueDone

dequeue ==
  \/ dequeueEmpty
  \/ dequeueLast
  \/ dequeueWrap
  \/ dequeueNext

-----------------------------------------------------------------------------
(* peek(), isEmpty(), length() as calls *)

callPeek ==
  /\ last' = Returned("peek", peek)
  /\ UNCHANGED <<size, queue, frontIndex, rearIndex, enqueued, dequeued, iters>>

callIsEmpty ==
  /\ last' = Returned("isEmpty", isEmpty)
  /\ UNCHANGED <<size, queue, frontIndex, rearIndex, enqueued, dequeued, iters>>

callLength ==
  /\ last' = Returned("length", length)
  /\ UNCHANGED <<size, queue, frontIndex, rearIndex, enqueued, dequeued, iters>>

-----------------------------------------------------------------------------
(* [Symbol.iterator]() and reverseIterator(): the closure captures index,   *)
(* count, totalItems and a reference to the queue's array.  start, out,    *)
(* done and mutated are history: the index captured, the values next() has *)
(* returned so far, whether next() has reported done, and whether an       *)
(* enqueue or dequeue succeeded since the iterator was made.               *)

NewIter(kind, index, total) ==
  [kind |-> kind, index |-> Num(index), count |-> 0, totalItems |-> total,
   start |-> index, out |-> <<>>, done |-> FALSE, mutated |-> FALSE]

\* [Symbol.iterator] counting the whole array instead of the live elements
iteratorWholeArray(i) ==
  /\ iters' = [iters EXCEPT ![i] = NewIter("forward", frontIndex, size)]
  /\ last' = Returned("iterator", i)
  /\ UNCHANGED <<size, queue, frontIndex, rearIndex, enqueued, dequeued>>

iterator(i) ==
  /\ iters' = [iters EXCEPT ![i] = NewIter("forward", frontIndex, length)]
  /\ last' = Returned("iterator", i)
  /\ UNCHANGED <<size, queue, frontIndex, rearIndex, enqueued, dequeued>>

\* reverseIterator that starts from the front instead of the rear
reverseIteratorFromFront(i) ==
  /\ iters' = [iters EXCEPT ![i] = NewIter("reverse", frontIndex, length)]
  /\ last' = Returned("reverseIterator", i)
  /\ UNCHANGED <<size, queue, frontIndex, rearIndex, enqueued, dequeued>>

reverseIterator(i) ==
  /\ iters' = [iters EXCEPT ![i] = NewIter("reverse", rearIndex, length)]
  /\ last' = Returned("reverseIterator", i)
  /\ UNCHANGED <<size, queue, frontIndex, rearIndex, enqueued, dequeued>>

\* the test that ends the iteration
\* a test that follows the queue's current length instead of the captured count
ExhaustedLive(it) == it.count >= length \/ it.index = Num(-1)

Exhausted(it) == it.count >= it.totalItems \/ it.index = Num(-1)

nextDone(i) ==
  /\ iters[i].kind # "none"
  /\ Exhausted(iters[i])
  /\ iters' = [iters EXCEPT ![i].done = TRUE]
  /\ last' = Returned("next", [value |-> Undefined, done |-> TRUE])
  /\ UNCHANGED <<size, queue, frontIndex, rearIndex, enqueued, dequeued>>

Advance(it, s) ==
  IF it.kind = "forward" THEN StepForward(it.index, s) ELSE StepBackward(it.index, s)

\* nextValue that also removes what it returns: it moves frontIndex on
nextValueConsuming(i) ==
  /\ iters[i].kind # "none"
  /\ ~Exhausted(iters[i])
  /\ iters' = [iters EXCEPT ![i].index = Advance(iters[i], size),
                            ![i].count = @ + 1,
                            ![i].out = Append(@, StorageGet(queue, iters[i].index))]
  /\ last' = Returned("next", [value |-> StorageGet(queue, iters[i].index), done |-> FALSE])
  /\ frontIndex' = IF frontIndex = rearIndex THEN -1 ELSE frontIndex + 1
  /\ UNCHANGED <<size, queue, rearIndex, enqueued, dequeued>>

\* nextValue with one cursor shared by all iterators of the queue
nextValueShared(i) ==
  /\ iters[i].kind # "none"
  /\ ~Exhausted(iters[i])
  /\ iters' = [j \in IterIds |->
                IF j = i
                THEN [iters[j] EXCEPT !.index = Advance(iters[i], size),
                                      !.count = @ + 1,
                                      !.out = Append(@, StorageGet(queue, iters[i].index))]
                ELSE IF iters[j].kind = "none" THEN iters[j]
                ELSE [iters[j] EXCEPT !.index = Advance(iters[i], size)]]
  /\ last' = Returned("next", [value |-> StorageGet(queue, iters[i].index), done |-> FALSE])
  /\ UNCHANGED <<size, queue, frontIndex, rearIndex, enqueued, dequeued>>

nextValue(i) ==
  /\ iters[i].kind # "none"
  /\ ~Exhausted(iters[i])
  /\ iters' = [iters EXCEPT ![i].index = Advance(iters[i], size),
                            ![i].count = @ + 1,
                            ![i].out = Append(@, StorageGet(queue, iters[i].index))]
  /\ last' = Returned("next", [value |-> StorageGet(queue, iters[i].index), done |-> FALSE])
  /\ UNCHANGED <<size, queue, frontIndex, rearIndex, enqueued, dequeued>>

next(i) ==
  \/ nextDone(i)
  \/ nextValue(i)

RECURSIVE Run(_, _, _)
\* the values an iterator returns when next() is called until it reports done
Run(it, q, s) ==
  IF Exhausted(it) THEN <<>>
  ELSE <<StorageGet(q, it.index)>>
         \o Run([it EXCEPT !.index = Advance(it, s), !.count = @ + 1], q, s)

\* what for...of over the queue gives now
forwardValues == Run(NewIter("forward", frontIndex, length), queue, size)

\* what draining reverseIterator() gives now
reverseValues == Run(NewIter("reverse", rearIndex, length), queue, size)

-----------------------------------------------------------------------------
Next ==
  \/ \E item \in Values : enqueue(item)
  \/ dequeue
  \/ callPeek
  \/ callIsEmpty
  \/ callLength

\* the queue alone
Spec == Init /\ [][Next]_vars

\* LimitedQueue.enqueue(item): the guard on length(), then super.enqueue
limitedEnqueueRejected(item) ==
  /\ length >= size
  /\ last' = Threw("enqueue", "Queue has reached its size limit")
  /\ UNCHANGED <<size, queue, frontIndex, rearIndex, enqueued, dequeued, iters>>

limitedEnqueue(item) ==
  \/ limitedEnqueueRejected(item)
  \/ (~(length >= size) /\ enqueue(item))

NextLimited ==
  \/ \E item \in Values : limitedEnqueue(item)
  \/ dequeue
  \/ callPeek
  \/ callIsEmpty
  \/ callLength

\* a LimitedQueue alone
SpecLimited == Init /\ [][NextLimited]_vars

\* the handle used when a run holds one iterator at a time
OneIter == {"i1"}

NextIter ==
  \/ Next
  \/ \E i \in OneIter : iterator(i)
  \/ \E i \in OneIter : reverseIterator(i)
  \/ \E i \in OneIter : next(i)

NextTwoIter ==
  \/ \E item \in Values : enqueue(item)
  \/ dequeue
  \/ \E i \in IterIds : iterator(i)
  \/ \E i \in IterIds : next(i)

\* the queue and two forward iterators, with calls in any order
SpecTwoIter == Init /\ [][NextTwoIter]_vars

\* the queue and one iterator, with calls in any order
SpecIter == Init /\ [][NextIter]_vars

-----------------------------------------------------------------------------
(* Properties of the queue *)

\* the values in the slots frontIndex .. rearIndex, stepping circularly
contents ==
  [k \in 1..length |-> ArrayGet(queue, (frontIndex + k - 1) % size)]

\* a call of `op` has just returned
JustReturned(op) == last.op = op /\ last.err = NoError

\* a call of `op` has just thrown `msg`
JustThrew(op, msg) == last.op = op /\ last.err = msg

\* C1: the k-th successful dequeue returns the item of the k-th successful
\* enqueue (the values dequeued so far are a prefix of the items enqueued so
\* far), and for a size >= 1 the slots from frontIndex to rearIndex hold
\* exactly the items enqueued and not yet dequeued, oldest first.
FifoLaw ==
  /\ Len(dequeued) <= Len(enqueued)
  /\ dequeued = SubSeq(enqueued, 1, Len(dequeued))
  /\ size >= 1 => contents = pending

\* C1: two different items have come out in the order they went in, from a
\* queue whose slots have been reused.
FifoLawWitness ==
  /\ size >= 2
  /\ JustReturned("dequeue")
  /\ Len(dequeued) >= 3
  /\ dequeued[2] # dequeued[3]
  /\ Len(enqueued) > size

\* C2: for a size >= 1, enqueue throws 'Queue is full' exactly when the
\* number of live elements (items enqueued and not yet dequeued) is size.
FullExactlyAtCapacity ==
  size >= 1 => (isFull(frontIndex, rearIndex, size) <=> Len(pending) = size)

\* C3: length() is the number of successful enqueues minus the number of
\* successful dequeues, it is never negative, and for a size >= 1 it never
\* exceeds size; so each successful enqueue adds one and each successful
\* dequeue takes one away, also when rearIndex < frontIndex.
LengthCounts ==
  /\ length = Len(enqueued) - Len(dequeued)
  /\ length >= 0
  /\ size >= 1 => length <= size

\* C3: a full queue whose live window wraps (rearIndex < frontIndex), just
\* after an enqueue.
LengthCountsWitness ==
  /\ JustReturned("enqueue")
  /\ rearIndex < frontIndex
  /\ Len(pending) = size
  /\ Len(dequeued) >= 1

\* C4: an enqueue on a queue of size N >= 1 that holds N live elements throws
\* 'Queue is full' and changes neither index nor any slot.
EnqueueOnFullRejected ==
  [][(size >= 1 /\ Len(pending) = size /\ last'.op = "enqueue")
       => (last'.err = "Queue is full" /\ UNCHANGED fields)]_vars

\* C4: 'Queue is full' has been thrown by a queue holding size elements
\* whose live window wraps.
EnqueueOnFullWitness ==
  /\ JustThrew("enqueue", "Queue is full")
  /\ size >= 1
  /\ Len(pending) = size
  /\ rearIndex < frontIndex

\* C5: a dequeue on a queue with no live element throws 'Queue is empty' (it
\* returns nothing) and changes neither index nor any slot, for a fresh
\* queue and for a drained one.
DequeueOnEmptyRejected ==
  [][(Len(pending) = 0 /\ last'.op = "dequeue")
       => (last'.err = "Queue is empty" /\ last'.ret = Undefined
           /\ UNCHANGED fields)]_vars

\* C5: 'Queue is empty' has been thrown by a queue that was filled to its
\* size and then drained.
DequeueOnEmptyWitness ==
  /\ JustThrew("dequeue", "Queue is empty")
  /\ size >= 2
  /\ Len(enqueued) >= size
  /\ Len(dequeued) = Len(enqueued)

\* C6: for a size N >= 1, starting from the fresh queue, N enqueues in a row
\* are all accepted; once N dequeues have followed, the values returned are
\* the items enqueued, in order, the queue is empty with length() 0, and the
\* next enqueue is accepted.
RoundTrip ==
  size >= 1 =>
    /\ (last.op = "enqueue" /\ dequeued = <<>> /\ Len(enqueued) < size)
          => last.err = NoError
    /\ (Len(enqueued) = size /\ Len(dequeued) = size)
          => (dequeued = enqueued /\ isEmpty /\ length = 0
              /\ ~isFull(frontIndex, rearIndex, size))

\* C7: for size 1, an enqueue on the empty queue is accepted and makes the
\* queue full, an enqueue on the full queue throws 'Queue is full', and a
\* dequeue on the full queue returns the item held and makes the queue empty
\* (so that the next enqueue is accepted again).
SingleSlot ==
  [][size = 1 =>
       /\ (last'.op = "enqueue" /\ Len(pending) = 0)
             => (last'.err = NoError /\ length' = 1 /\ pending' # <<>>
                 /\ isFull(frontIndex', rearIndex', size'))
       /\ (last'.op = "enqueue" /\ Len(pending) = 1)
             => (last'.err = "Queue is full" /\ UNCHANGED fields)
       /\ (last'.op = "dequeue" /\ Len(pending) = 1)
             => (last'.err = NoError /\ last'.ret = Head(pending)
                 /\ isEmpty' /\ length' = 0
                 /\ ~isFull(frontIndex', rearIndex', size'))]_vars

\* C7: the size-1 queue has gone through the cycle twice and accepted a
\* third item.
SingleSlotWitness ==
  /\ size = 1
  /\ JustReturned("enqueue")
  /\ Len(enqueued) = 3
  /\ Len(dequeued) = 2

\* C8: no queue exists whose size is 0 or negative, so an enqueue succeeds
\* only on a queue of size >= 1.
CapacityPositive == enqueued # <<>> => size >= 1

\* what the next dequeue would return
front == IF pending = <<>> THEN Null ELSE Head(pending)

\* C9: peek() never throws; on an empty queue it returns null, on a
\* non-empty queue the oldest live item, which is the value the next dequeue
\* returns; it removes nothing.
PeekIsFront ==
  /\ [](peek = front)
  /\ [](last.op = "peek" => (last.err = NoError /\ last.ret = front))
  /\ [][last'.op = "peek" => UNCHANGED <<fields, enqueued, dequeued>>]_vars
  /\ [][(last'.op = "dequeue" /\ last'.err = NoError) => last'.ret = peek]_vars

\* C9: peek() has answered on a non-empty queue whose front slot is not
\* slot 0 and whose live window wraps.
PeekIsFrontWitness ==
  /\ JustReturned("peek")
  /\ last.ret \in Values
  /\ rearIndex < frontIndex

\* C10: a forward iterator made on a queue that has not been changed since
\* yields the live items oldest first (a prefix of them so far), is exhausted
\* exactly when it has yielded all length() of them, and yields nothing for
\* an empty queue.
ForwardIterates ==
  \A i \in IterIds :
    (iters[i].kind = "forward" /\ ~iters[i].mutated) =>
      /\ iters[i].totalItems = length
      /\ Len(iters[i].out) <= Len(pending)
      /\ iters[i].out = SubSeq(pending, 1, Len(iters[i].out))
      /\ Exhausted(iters[i]) <=> iters[i].out = pending
      /\ iters[i].done => (iters[i].out = pending /\ Len(iters[i].out) = length)

\* C10: a forward iterator has run to its end over a live window that wraps
\* around the end of the array.
ForwardIteratesWitness ==
  \E i \in IterIds :
    /\ iters[i].kind = "forward"
    /\ ~iters[i].mutated
    /\ iters[i].done
    /\ Len(iters[i].out) >= 2
    /\ rearIndex < frontIndex

\* the sequence s back to front
Reverse(s) == [k \in 1..Len(s) |-> s[Len(s) + 1 - k]]

\* C11: in every reachable state what reverseIterator() yields is the reverse
\* of what the forward iterator yields; a reverse iterator made on a queue not
\* changed since starts at rearIndex, has yielded a prefix of that reversed
\* sequence, and is exhausted exactly when it has yielded all of it.
ReverseIsForwardReversed ==
  /\ reverseValues = Reverse(forwardValues)
  /\ \A i \in IterIds :
       (iters[i].kind = "reverse" /\ ~iters[i].mutated) =>
         /\ iters[i].start = rearIndex
         /\ Len(iters[i].out) <= Len(forwardValues)
         /\ iters[i].out = SubSeq(Reverse(forwardValues), 1, Len(iters[i].out))
         /\ Exhausted(iters[i]) <=> iters[i].out = Reverse(forwardValues)

\* C11: a reverse iterator has run to its end over a full queue whose live
\* window wraps, and the items it yielded differ.
ReverseIsForwardReversedWitness ==
  \E i \in IterIds :
    /\ iters[i].kind = "reverse"
    /\ ~iters[i].mutated
    /\ iters[i].done
    /\ Len(iters[i].out) = size
    /\ size >= 3
    /\ iters[i].out[1] # iters[i].out[2]
    /\ rearIndex < frontIndex

\* C12: a successful enqueue on a non-empty queue moves rearIndex to
\* (rearIndex + 1) % size and stores the item there (so from size - 1 it goes
\* to slot 0); and for size 3, after enqueue A, B, C, dequeue, enqueue D
\* (four items in, one out, frontIndex 1) rearIndex is 0 and forward
\* iteration yields B, C, D.
RearWraps ==
  /\ [][(last'.op = "enqueue" /\ last'.err = NoError /\ frontIndex # -1)
          => /\ size >= 1
             /\ rearIndex' = (rearIndex + 1) % size
             /\ ArrayGet(queue', rearIndex') = enqueued'[Len(enqueued')]]_vars
  /\ []((size = 3 /\ Len(enqueued) = 4 /\ Len(dequeued) = 1 /\ frontIndex = 1)
          => (rearIndex = 0 /\ forwardValues = SubSeq(enqueued, 2, 4)))

\* C12: the size-3 queue after enqueue A, B, C, dequeue, enqueue D.
RearWrapsWitness ==
  /\ size = 3
  /\ JustReturned("enqueue")
  /\ Len(enqueued) = 4
  /\ dequeued = <<enqueued[1]>>
  /\ frontIndex = 1
  /\ rearIndex = 0
  /\ ArrayGet(queue, 0) = enqueued[4]

\* the calls that only read
ReadOnlyOps == {"peek", "isEmpty", "length", "iterator", "reverseIterator", "next"}

\* C13: peek(), isEmpty(), length(), making a forward or a reverse iterator
\* and every call of next() leave size, frontIndex, rearIndex and all slots
\* of the array as they were.
ReadsChangeNothing ==
  [][last'.op \in ReadOnlyOps => UNCHANGED fields]_vars

\* C13: next() has returned its second value from an iterator over a
\* non-empty queue that was not changed meanwhile.
ReadsChangeNothingWitness ==
  \E i \in IterIds :
    /\ last.op = "next"
    /\ last.err = NoError
    /\ ~last.ret.done
    /\ iters[i].count = 2
    /\ ~iters[i].mutated
    /\ Len(pending) >= 2

\* the state of a queue of size s holding n live elements
StateOf(n, s) ==
  IF n = 0 THEN "Empty" ELSE IF n = s THEN "Full" ELSE "PartiallyFilled"

\* C14: for a size >= 1 every enqueue and dequeue step follows the state
\* table: enqueue from Empty succeeds and gives PartiallyFilled (Full for
\* size 1), from PartiallyFilled succeeds and gives PartiallyFilled or Full,
\* from Full throws; dequeue from Empty throws, from PartiallyFilled succeeds
\* and gives PartiallyFilled or Empty, from Full succeeds and gives
\* PartiallyFilled (Empty for size 1).
StateTable ==
  [][size >= 1 =>
       LET from == StateOf(length, size)
           to == StateOf(length', size')
       IN /\ (last'.op = "enqueue" /\ from = "Empty")
               => (last'.err = NoError
                   /\ to = IF size = 1 THEN "Full" ELSE "PartiallyFilled")
          /\ (last'.op = "enqueue" /\ from = "PartiallyFilled")
               => (last'.err = NoError /\ to \in {"PartiallyFilled", "Full"})
          /\ (last'.op = "enqueue" /\ from = "Full")
               => (last'.err = "Queue is full" /\ to = "Full")
          /\ (last'.op = "dequeue" /\ from = "Empty")
               => (last'.err = "Queue is empty" /\ to = "Empty")
          /\ (last'.op = "dequeue" /\ from = "PartiallyFilled")
               => (last'.err = NoError /\ to \in {"PartiallyFilled", "Empty"})
          /\ (last'.op = "dequeue" /\ from = "Full")
               => (last'.err = NoError
                   /\ to = IF size = 1 THEN "Empty" ELSE "PartiallyFilled")]_vars

\* C15: frontIndex is -1 exactly when rearIndex is -1, and exactly when no
\* element is live (as many successful dequeues as successful enqueues).
SentinelsAgree ==
  /\ (frontIndex = -1) <=> (rearIndex = -1)
  /\ (frontIndex = -1) <=> (Len(enqueued) - Len(dequeued) = 0)

\* C15: a queue whose window had wrapped has been drained: both indices are
\* back at -1.
SentinelsAgreeWitness ==
  /\ JustReturned("dequeue")
  /\ frontIndex = -1
  /\ rearIndex = -1
  /\ size >= 3
  /\ Len(dequeued) > size

\* C16: for a size >= 1 both ends can be reached and left: whenever fewer
\* than size elements are live the next enqueue is accepted (so size enqueues
\* in a row take the empty queue to length() = size), and whenever an element
\* is live the next dequeue is accepted (so length() dequeues in a row empty
\* the queue).
EndsReachable ==
  size >= 1 =>
    /\ length < size => ~isFull(frontIndex, rearIndex, size)
    /\ length > 0 => ~isEmpty

\* the count by the formula (rearIndex - frontIndex + size) % size + 1
ModularCount(f, r, s) == ((r - f + s) % s) + 1

\* C17: in every non-empty state of a queue of size >= 1 the two-branch
\* length() equals (rearIndex - frontIndex + size) % size + 1 and lies in
\* 1 .. size.
LengthIsModular ==
  (size >= 1 /\ frontIndex # -1) =>
    /\ length = ModularCount(frontIndex, rearIndex, size)
    /\ length >= 1
    /\ length <= size

\* C17: length() has answered on a queue whose window wraps
\* (rearIndex < frontIndex) without being full.
LengthIsModularWitness ==
  /\ JustReturned("length")
  /\ rearIndex < frontIndex
  /\ last.ret = 2
  /\ size >= 3

\* the slots from frontIndex to rearIndex, stepping circularly
LiveSlots ==
  IF frontIndex = -1 THEN {}
  ELSE {(frontIndex + k) % size : k \in 0..(length - 1)}

\* C18: a successful enqueue on a queue of size >= 1 writes the item to the
\* slot rearIndex ends at, that slot was not one of the live slots before the
\* call, and every other slot (and the number of slots) is as before.
EnqueueSparesLive ==
  [][(size >= 1 /\ last'.op = "enqueue" /\ last'.err = NoError)
       => /\ rearIndex' \notin LiveSlots
          /\ ArrayGet(queue', rearIndex') = enqueued'[Len(enqueued')]
          /\ DOMAIN queue' = DOMAIN queue
          /\ \A j \in DOMAIN queue : j # rearIndex' => queue'[j] = queue[j]]_vars

\* C18: an enqueue has been accepted into the one free slot of a queue whose
\* other slots are all live, replacing a stale value by a different item.
EnqueueSparesLiveWitness ==
  /\ JustReturned("enqueue")
  /\ size >= 3
  /\ Len(pending) = size
  /\ Len(dequeued) >= 1
  /\ ArrayGet(queue, rearIndex) # dequeued[Len(dequeued)]

\* C19: for a size >= 1, either frontIndex = rearIndex = -1 or both lie in
\* 0 .. size - 1 (so every slot read or written has an index in that range),
\* the array always has exactly size slots, and size never changes.
IndicesInRange ==
  /\ [](size >= 1 =>
          /\ \/ (frontIndex = -1 /\ rearIndex = -1)
             \/ (frontIndex \in 0..(size - 1) /\ rearIndex \in 0..(size - 1))
          /\ ArrayLength(queue) = size
          /\ DOMAIN queue = 0..(size - 1))
  /\ [][size' = size]_vars

\* C19: frontIndex is at the last slot and rearIndex has wrapped to slot 0.
IndicesInRangeWitness ==
  /\ size >= 3
  /\ frontIndex = size - 1
  /\ rearIndex = 0

\* C20: a successful dequeue returns the value in slot frontIndex; if
\* frontIndex = rearIndex it sets both to -1, otherwise it sets frontIndex to
\* (frontIndex + 1) % size (from size - 1 to 0) and leaves rearIndex alone;
\* it writes no slot.
DequeueSteps ==
  [][(last'.op = "dequeue" /\ last'.err = NoError)
       => /\ last'.ret = ArrayGet(queue, frontIndex)
          /\ frontIndex \in DOMAIN queue
          /\ IF frontIndex = rearIndex
             THEN frontIndex' = -1 /\ rearIndex' = -1
             ELSE /\ size >= 1
                  /\ frontIndex' = (frontIndex + 1) % size
                  /\ rearIndex' = rearIndex
          /\ queue' = queue
          /\ size' = size]_vars

\* C20: a dequeue has just moved frontIndex from the last slot to slot 0,
\* with elements still live.
DequeueStepsWitness ==
  /\ JustReturned("dequeue")
  /\ size >= 3
  /\ frontIndex = 0
  /\ Len(dequeued) = size
  /\ Len(pending) >= 1

\* C21: an enqueue on a queue with no live element, wherever the indices
\* stood before it was drained, is accepted, sets frontIndex = rearIndex = 0
\* and stores the item in slot 0; and what peek, dequeue and a complete
\* forward or reverse iteration return are always the live items, never a
\* value an earlier use left in another slot.
CleanRestart ==
  /\ [][(last'.op = "enqueue" /\ Len(pending) = 0)
          => /\ last'.err = NoError
             /\ frontIndex' = 0
             /\ rearIndex' = 0
             /\ ArrayGet(queue', 0) = enqueued'[Len(enqueued')]
             /\ pending' = <<enqueued'[Len(enqueued')]>>]_vars
  /\ [][(last'.op = "dequeue" /\ last'.err = NoError)
          => last'.ret = Head(pending)]_vars
  /\ [](pending # <<>> => peek = Head(pending))
  /\ [](forwardValues = pending)
  /\ [](reverseValues = Reverse(pending))

\* C21: an item has been accepted into slot 0 of a drained queue while
\* another slot still holds a different value from earlier use.
CleanRestartWitness ==
  /\ JustReturned("enqueue")
  /\ frontIndex = 0
  /\ rearIndex = 0
  /\ Len(dequeued) >= 2
  /\ \E j \in DOMAIN queue :
       j # 0 /\ queue[j] \in Values /\ queue[j] # queue[0]

\* C22: on a queue of size >= 1 that is not changed meanwhile, the slot
\* peek and dequeue read (frontIndex, when the queue is not empty) and the
\* slot the next call of next() reads, for a forward and for a reverse
\* iterator, are live slots; an exhausted iterator reads no slot.
ReadsStayLive ==
  size >= 1 =>
    /\ frontIndex # -1 => (frontIndex \in LiveSlots /\ rearIndex \in LiveSlots)
    /\ LiveSlots \subseteq DOMAIN queue
    /\ \A j \in LiveSlots : queue[j] \in Values
    /\ \A i \in IterIds :
         (iters[i].kind # "none" /\ ~iters[i].mutated /\ ~Exhausted(iters[i]))
           => (iters[i].index # NaN /\ iters[i].index \subseteq LiveSlots)

\* C22: a reverse iterator over a window that wraps has read a slot and is
\* about to read another one, with a slot outside the window holding a value
\* already dequeued.
ReadsStayLiveWitness ==
  \E i \in IterIds :
    /\ iters[i].kind = "reverse"
    /\ ~iters[i].mutated
    /\ iters[i].count >= 1
    /\ ~Exhausted(iters[i])
    /\ rearIndex < frontIndex
    /\ \E j \in DOMAIN queue : j \notin LiveSlots /\ queue[j] \in Values

\* C23: whenever next() returns a value on a queue of size >= 1, the slot it
\* read is inside the live frontIndex..rearIndex window at that moment,
\* whatever enqueue and dequeue calls came between the iterator's creation
\* and the call.
NextReadsLive ==
  [][\A i \in IterIds :
       (/\ size >= 1
        /\ last'.op = "next"
        /\ iters[i].kind # "none"
        /\ iters'[i].count = iters[i].count + 1)
         => (iters[i].index # NaN /\ iters[i].index \subseteq LiveSlots)]_vars

\* the slot an iterator reads on its next call when it steps circularly from
\* the index it captured, having returned Len(out) values so far
SnapshotSlot(it) ==
  IF it.kind = "forward" THEN (it.start + Len(it.out)) % size
  ELSE (it.start - Len(it.out) + size * Len(it.out)) % size

\* C24: an iterator captures frontIndex (forward) or rearIndex (reverse) and
\* length() when it is made, and no enqueue or dequeue changes what it
\* captured: it returns a value exactly as long as it has returned fewer
\* values than length() was at creation, so it has returned exactly that many
\* when it reports done, and on a queue of size >= 1 each value is read from
\* the next circular slot position counted from the captured index.
SnapshotHeld ==
  /\ [](\A i \in IterIds :
          iters[i].kind # "none" =>
            /\ iters[i].count = Len(iters[i].out)
            /\ Len(iters[i].out) <= iters[i].totalItems
            /\ Exhausted(iters[i]) <=> Len(iters[i].out) = iters[i].totalItems
            /\ iters[i].done => Len(iters[i].out) = iters[i].totalItems
            /\ (size >= 1 /\ iters[i].start # -1)
                 => iters[i].index = Num(SnapshotSlot(iters[i])))
  /\ [][\A i \in IterIds :
          IF last'.op \in {"iterator", "reverseIterator"} /\ last'.ret = i
          THEN /\ iters'[i].totalItems = length
               /\ iters'[i].out = <<>>
               /\ iters'[i].start =
                    (IF last'.op = "iterator" THEN frontIndex ELSE rearIndex)
               /\ iters'[i].kind =
                    (IF last'.op = "iterator" THEN "forward" ELSE "reverse")
          ELSE /\ iters'[i].totalItems = iters[i].totalItems
               /\ iters'[i].start = iters[i].start
               /\ iters'[i].kind = iters[i].kind
               /\ \/ iters'[i].out = iters[i].out
                  \/ /\ last'.op = "next"
                     /\ ~Exhausted(iters[i])
                     /\ iters'[i].out =
                          Append(iters[i].out, StorageGet(queue, iters[i].index))]_vars

\* C24: a reverse iterator has reported done after returning two or more
\* values, as many as length() was at its creation, although enqueue or
\* dequeue calls in between have left the queue with another length.
SnapshotHeldWitness ==
  \E i \in IterIds :
    /\ iters[i].kind = "reverse"
    /\ iters[i].done
    /\ iters[i].mutated
    /\ Len(iters[i].out) = iters[i].totalItems
    /\ iters[i].totalItems >= 2
    /\ length # iters[i].totalItems
    /\ iters[i].start # rearIndex

\* C25: an iterator over a queue of size >= 1 returns at most size values
\* before it reports done, and after next() has reported done every later
\* next() on that iterator reports done and returns no value, also when
\* elements were enqueued in between.
IteratorFinite ==
  /\ [](\A i \in IterIds :
          iters[i].kind # "none" =>
            /\ size >= 1 => (Len(iters[i].out) <= size /\ iters[i].totalItems <= size)
            /\ Len(iters[i].out) <= iters[i].totalItems
            /\ iters[i].done => Exhausted(iters[i]))
  /\ [][\A i \in IterIds :
          (/\ iters[i].done
           /\ ~(last'.op \in {"iterator", "reverseIterator"} /\ last'.ret = i))
            => /\ iters'[i].done
               /\ iters'[i].out = iters[i].out
               /\ Exhausted(iters'[i])]_vars
  /\ [][(last'.op = "next" /\ \E i \in IterIds : iters[i].done)
          => last'.ret = [value |-> Undefined, done |-> TRUE]]_vars

\* C25: next() reports done again on an iterator that had reported done
\* before elements were enqueued, the queue now holding more elements than
\* the iterator returned.
IteratorFiniteWitness ==
  \E i \in IterIds :
    /\ JustReturned("next")
    /\ last.ret.done
    /\ iters[i].done
    /\ iters[i].mutated
    /\ iters[i].totalItems >= 1
    /\ Len(enqueued) > iters[i].totalItems + Len(dequeued)

\* s is an initial part of t
IsPrefix(s, t) == Len(s) <= Len(t) /\ s = SubSeq(t, 1, Len(s))

\* C26: forward iterators made on the same queue, with no successful
\* enqueue or dequeue since, each return the queue's elements from the first
\* on, in any interleaving of their next() calls: what each has returned so
\* far is an initial part of the queue's contents, all of them once it
\* reports done, and a next() on one changes nothing of the other.
IteratorsIndependent ==
  /\ [](\A i \in IterIds :
          (iters[i].kind = "forward" /\ ~iters[i].mutated) =>
            /\ IsPrefix(iters[i].out, forwardValues)
            /\ forwardValues = pending
            /\ iters[i].done => iters[i].out = forwardValues
            /\ \A j \in IterIds :
                 (iters[j].kind = "forward" /\ ~iters[j].mutated) =>
                   (IsPrefix(iters[i].out, iters[j].out)
                      \/ IsPrefix(iters[j].out, iters[i].out)))
  /\ [][\A i \in IterIds :
          (last'.op = "next" /\ iters'[i] # iters[i]) =>
            \A j \in IterIds \ {i} : iters'[j] = iters[j]]_vars

\* C26: two iterators over the same three elements, neither disturbed by an
\* enqueue or dequeue, are at different positions: one has returned one
\* value and the other two.
IteratorsIndependentWitness ==
  /\ JustReturned("next")
  /\ ~iters["i1"].mutated /\ ~iters["i2"].mutated
  /\ iters["i1"].kind = "forward" /\ iters["i2"].kind = "forward"
  /\ Len(iters["i1"].out) = 1
  /\ Len(iters["i2"].out) = 2
  /\ Len(pending) = 3
  /\ pending[1] # pending[2]

\* C27: an enqueue that succeeds on a queue holding at least one element
\* leaves frontIndex, the slot it designates and the value peek() returns as
\* they were, also when rearIndex wraps to slot 0.
EnqueueSparesFront ==
  [][(last'.op = "enqueue" /\ last'.err = NoError /\ frontIndex # -1)
       => /\ frontIndex' = frontIndex
          /\ peek' = peek
          /\ peek' = Head(pending)
          /\ ArrayGet(queue', frontIndex) = ArrayGet(queue, frontIndex)]_vars

\* C27: an enqueue has just wrapped rearIndex to slot 0, which a dequeue had
\* freed, while the front is further on and peek() returns the oldest
\* element still in the queue.
EnqueueSparesFrontWitness ==
  /\ JustReturned("enqueue")
  /\ rearIndex = 0
  /\ frontIndex >= 1
  /\ dequeued # <<>>
  /\ peek \in Values
  /\ peek # ArrayGet(queue, 0)

\* C28: in every state isEmpty() is true exactly when length() is 0, exactly
\* when frontIndex is -1 and exactly when peek() returns null, and a dequeue
\* throws 'Queue is empty' exactly when isEmpty() was true before it.
EmptinessAgrees ==
  /\ [](/\ isEmpty <=> length = 0
        /\ isEmpty <=> frontIndex = -1
        /\ isEmpty <=> peek = Null
        /\ isEmpty <=> pending = <<>>)
  /\ [][last'.op = "dequeue"
          => (last'.err = "Queue is empty" <=> isEmpty)]_vars
  /\ [][last'.op = "isEmpty" => last'.ret = (length = 0)]_vars
  /\ [][last'.op = "length" => ((last'.ret = 0) <=> isEmpty)]_vars

\* C28: isEmpty() has just returned true on a queue that was emptied by
\* dequeues, with the dequeued values still in the array.
EmptinessAgreesWitness ==
  /\ JustReturned("isEmpty")
  /\ last.ret = TRUE
  /\ dequeued # <<>>
  /\ length = 0
  /\ \E j \in DOMAIN queue : queue[j] \in Values

\* C29: on a LimitedQueue of size >= 1 the guard length() >= size holds
\* exactly when the base class's full check holds, so no call of
\* LimitedQueue.enqueue ends with the base error 'Queue is full' and every
\* call that passes the guard stores its item.
LimitedAgrees ==
  /\ [](size >= 1 => ((length >= size) <=> isFull(frontIndex, rearIndex, size)))
  /\ [][(size >= 1 /\ last'.op = "enqueue")
          => /\ last'.err # "Queue is full"
             /\ ~(length >= size) => (last'.err = NoError /\ pending' # pending)]_vars

====
